---- MODULE Spec2Model ----
(***************************************************************************)
(* Model of the students-management REST backend (src/Backend/server.js):  *)
(* the Student and Course collections, the Mongoose schemas that guard     *)
(* them, the route handlers, and the dashboard aggregation; and of the UI  *)
(* script in front of it (src/unnamed/part_000): the requests it sends,    *)
(* its session state and its suspended async functions.                    *)
(***************************************************************************)
EXTENDS Integers, Sequences, FiniteSets, TLC

VARIABLES students, courses, nextStudent, nextCourse, strictQuery, req, resp, stats,
          now, list, dash, del, seen, ui, page, tasks

vars == <<students, courses, nextStudent, nextCourse, strictQuery, req, resp, stats,
          now, list, dash, del, seen, ui, page, tasks>>

store == <<students, courses>>

-----------------------------------------------------------------------------
(* Bounds *)

\* Students ever created in one run of the CRUD specification.
MaxStudents == 2
\* Courses ever created in one run of the CRUD specification.
MaxCourses == 2
\* Students in a store handed to the aggregation specification.
MaxStatStudents == 3
\* Milliseconds that pass in one run of the read specification.
MaxClock == 2
\* Async functions of the UI that are suspended at one time.
MaxTasks == 2

-----------------------------------------------------------------------------
(* Values *)

\* A key left out of a JSON request body.
Absent == "<absent>"
AbsentNum == -1

\* ObjectIds, as the strings the routes receive in req.params.id.
StudentId(n) == "s" \o ToString(n)
CourseId(n) == "c" \o ToString(n)
\* A path parameter that is not a 24-hex-digit ObjectId.
BadId == "zz"

StudentIds == {StudentId(n) : n \in 1..MaxStudents}
CourseIds == {CourseId(n) : n \in 1..MaxCourses}

\* The path parameters that cast to an ObjectId.
isObjectId(id) == id \in StudentIds \cup CourseIds

StatusEnum == {"active", "inactive"}

Has(body, f) == f \in DOMAIN body

\* The JSON object carrying the given student fields; Absent keys are left out.
StudentBody(n, e, c, d, s) ==
  LET full == [name |-> n, email |-> e, course |-> c,
               enrollmentDate |-> d, status |-> s]
  IN  [f \in {g \in DOMAIN full : full[g] # Absent} |-> full[f]]

EmailIn == {"a@x.io", "b@x.io"}
StatusIn == {"active", "inactive", "graduated"}

\* Request bodies for the student routes: the bodies the form sends (every
\* field, status given or left out), each of them with one required field
\* left out, empty or malformed, and the bodies that carry a single field.
FullStudentBodies ==
  {StudentBody("Alice", e, CourseId(1), "2024-01-01", s) :
     e \in EmailIn, s \in StatusIn \cup {Absent}}

BrokenStudentBodies ==
  {StudentBody(Absent, "a@x.io", CourseId(1), "2024-01-01", Absent),
   StudentBody("", "a@x.io", CourseId(1), "2024-01-01", Absent),
   StudentBody("Alice", Absent, CourseId(1), "2024-01-01", Absent),
   StudentBody("Alice", "a@x.io", Absent, "2024-01-01", Absent),
   StudentBody("Alice", "a@x.io", CourseId(1), Absent, Absent),
   StudentBody("Alice", "a@x.io", CourseId(1), "notadate", Absent)}

PartialStudentBodies ==
  {StudentBody(Absent, Absent, Absent, Absent, Absent),
   StudentBody("", Absent, Absent, Absent, Absent),
   StudentBody(Absent, Absent, Absent, "notadate", Absent)}
  \cup {StudentBody(Absent, e, Absent, Absent, Absent) : e \in EmailIn}
  \cup {StudentBody(Absent, Absent, Absent, Absent, s) : s \in StatusIn}

StudentBodies ==
  FullStudentBodies \cup BrokenStudentBodies \cup PartialStudentBodies

CourseBody(n, d, u, s) ==
  LET D == (IF n # Absent THEN {"name"} ELSE {})
           \cup (IF d # Absent THEN {"description"} ELSE {})
           \cup (IF u # AbsentNum THEN {"duration"} ELSE {})
           \cup (IF s # Absent THEN {"status"} ELSE {})
  IN  [f \in D |-> CASE f = "name" -> n
                     [] f = "description" -> d
                     [] f = "duration" -> u
                     [] f = "status" -> s]


CourseNameIn == {"Algo", "Bio"}

\* Request bodies for the course routes, chosen like the student bodies.
FullCourseBodies ==
  {CourseBody(n, "intro", 12, s) :
     n \in CourseNameIn, s \in {Absent, "active", "inactive"}}

BrokenCourseBodies ==
  {CourseBody(Absent, "intro", 12, Absent),
   CourseBody("", "intro", 12, Absent),
   CourseBody("Algo", Absent, 12, Absent),
   CourseBody("Algo", "intro", AbsentNum, Absent),
   CourseBody("Algo", "intro", 12, "archived")}

PartialCourseBodies ==
  {CourseBody(Absent, Absent, AbsentNum, Absent),
   CourseBody(Absent, Absent, AbsentNum, "inactive")}
  \cup {CourseBody(n, Absent, AbsentNum, Absent) : n \in CourseNameIn}

CourseBodies == FullCourseBodies \cup BrokenCourseBodies

\* The bodies that enrol a student in one of the courses.
EnrolBodies ==
  {StudentBody("Alice", e, c, "2024-01-01", Absent) :
     e \in EmailIn, c \in CourseIds}

-----------------------------------------------------------------------------
(* Schemas *)

StudentPaths == {"name", "email", "course", "enrollmentDate", "status"}
CoursePaths == {"name", "description", "duration", "status"}

\* What Mongoose's cast of a value to the type of its path fails with.
CastError == "<CastError>"

\* new Date(v) for the strings of the model, as seconds since the epoch; -1
\* stands for the time value NaN of an invalid date.  A date-only string is
\* midnight UTC.
dateParse(v) ==
  CASE v = "2024-01-01" -> 1704067200
    [] v = "2024-01-01T00:00:00.000Z" -> 1704067200
    [] v = "2023-12-31T23:00:00.000Z" -> 1704063600
    [] v = "2024-03-05T10:30:00.000Z" -> 1709634600
    [] OTHER -> -1

\* Date.prototype.toISOString, by which res.json serialises a Date.
toISOString(t) ==
  CASE t = 1704067200 -> "2024-01-01T00:00:00.000Z"
    [] t = 1704063600 -> "2023-12-31T23:00:00.000Z"
    [] t = 1709634600 -> "2024-03-05T10:30:00.000Z"

\* A cast that reads a date-only string as midnight local time, one hour
\* east of UTC.
castDate_localTime(v) ==
  IF dateParse(v) = -1 THEN CastError
  ELSE IF v = "2024-01-01" THEN toISOString(dateParse(v) - 3600)
  ELSE toISOString(dateParse(v))

\* The cast of a request string to the Date path, shown as the timestamp
\* the stored Date serialises to.
castDate(v) ==
  IF dateParse(v) = -1 THEN CastError ELSE toISOString(dateParse(v))

\* required: true on a String path rejects undefined and the empty string.
requiredString(body, f) == Has(body, f) /\ body[f] # ""

\* The student schema with required: true left off the name path.
studentSchemaErrors_nameOptional(body) ==
  {f \in {"email", "course"} : ~requiredString(body, f)}
  \cup (IF ~Has(body, "enrollmentDate")
           \/ castDate(body.enrollmentDate) = CastError
        THEN {"enrollmentDate"} ELSE {})
  \cup (IF Has(body, "status") /\ body.status \notin StatusEnum
        THEN {"status"} ELSE {})

\* new Student(req.body).validate(): the paths that fail validation.
studentSchemaErrors(body) ==
  {f \in {"name", "email", "course"} : ~requiredString(body, f)}
  \cup (IF ~Has(body, "enrollmentDate")
           \/ castDate(body.enrollmentDate) = CastError
        THEN {"enrollmentDate"} ELSE {})
  \cup (IF Has(body, "status") /\ body.status \notin StatusEnum
        THEN {"status"} ELSE {})

\* The student schema with default: "active" left off the status path.
studentDoc_noDefault(body) ==
  [f \in DOMAIN body \cap StudentPaths |->
     IF f = "enrollmentDate" THEN castDate(body[f]) ELSE body[f]]

\* The document new Student(req.body) holds: the schema paths the body sets,
\* cast to their types, and the default of status.
studentDoc(body) ==
  [f \in (DOMAIN body \cap StudentPaths) \cup {"status"} |->
     IF f = "status" /\ ~Has(body, "status") THEN "active"
     ELSE IF f = "enrollmentDate" THEN castDate(body[f])
     ELSE body[f]]

\* The student schema with unique: true left off the email path.
emailTaken_noIndex(email, exceptId) == FALSE

\* A uniqueness check made on inserts only, as an application-level check
\* in the create handler would be.
emailTaken_insertOnly(email, exceptId) ==
  /\ exceptId = BadId
  /\ \E id \in DOMAIN students :
       Has(students[id], "email") /\ students[id].email = email

\* The unique index studentSchema.email declares: does another document
\* already hold this email?
emailTaken(email, exceptId) ==
  \E id \in DOMAIN students :
    id # exceptId /\ Has(students[id], "email") /\ students[id].email = email

\* new Course(req.body).validate(): the paths that fail validation.
courseSchemaErrors(body) ==
  {f \in {"name", "description"} : ~requiredString(body, f)}
  \cup (IF ~Has(body, "duration") THEN {"duration"} ELSE {})
  \cup (IF Has(body, "status") /\ body.status \notin StatusEnum
        THEN {"status"} ELSE {})

courseDoc(body) ==
  [f \in (DOMAIN body \cap CoursePaths) \cup {"status"} |->
     IF f = "status" /\ ~Has(body, "status") THEN "active" ELSE body[f]]

\* The course schema with unique: true left off the name path.
nameTaken_noIndex(name, exceptId) == FALSE

\* The unique index courseSchema.name declares.
nameTaken(name, exceptId) ==
  \E id \in DOMAIN courses :
    id # exceptId /\ Has(courses[id], "name") /\ courses[id].name = name

\* The response a route sends: its HTTP status, the error (or "ok") behind
\* it, and the _id of the record in the body when the body is a record.
NoId == "-"
Response(op, status, kind, id) ==
  [op |-> op, status |-> status, kind |-> kind, id |-> id]

\* The request a route is handling: the operation, req.params.id, req.body.
Request(op, id, body) == [op |-> op, id |-> id, body |-> body]
NoBody == <<>>

NoStats == [computed |-> FALSE]

\* The array in the body of a response that is not a list.
NoArray == <<>>

\* A getDashboardStats call that is not running: pc counts the queries of a
\* running call that have been answered.
DashIdle == [pc |-> 0]

\* No deleteCourse handler is between its count and its delete.
NoDelete == [id |-> NoId]

\* The browser has no request waiting for the server.
NoSend == [op |-> "none"]

\* The globals of the UI script as its first lines set them, null shown as
\* NoId, with the display of the spinner and of the three modals and whether
\* DOMContentLoaded has fired.
PageInit ==
  [currentSection |-> "dashboard", courses |-> <<>>,
   editingId |-> NoId, editingCourseId |-> NoId,
   deleteType |-> "", deleteId |-> NoId,
   loading |-> FALSE, studentModal |-> FALSE, courseModal |-> FALSE,
   deleteModal |-> FALSE, loaded |-> FALSE]

\* No async function of the UI is suspended.
NoTasks == <<>>

\* What a handler does besides its own writes: it answers with the given
\* array (NoArray when the body is not a list) and leaves the clock, the
\* handlers that are waiting on a query, and the browser alone.  seen is the
\* record of the store states a running getDashboardStats call has lived
\* through.
Handled(arr) ==
  /\ list' = arr
  /\ UNCHANGED <<now, dash, del, ui, page, tasks>>
  /\ seen' = IF dash.pc > 0 THEN seen \cup {<<students', courses'>>} ELSE seen

\* timestamps: true: createdAt and updatedAt as save() sets them.
withTimestamps(doc) ==
  [f \in DOMAIN doc \cup {"createdAt", "updatedAt"} |->
     IF f \in {"createdAt", "updatedAt"} THEN now ELSE doc[f]]

\* timestamps: true on findByIdAndUpdate: updatedAt is set again.
touched(doc) ==
  [f \in DOMAIN doc \cup {"updatedAt"} |->
     IF f = "updatedAt" THEN now ELSE doc[f]]

-----------------------------------------------------------------------------
(* Queries *)

\* Mongoose's strictQuery: when on, filter keys that are not schema paths are
\* removed from the filter before it is sent to the store.
applyStrictQuery(filter) ==
  IF strictQuery
  THEN [f \in DOMAIN filter \cap StudentPaths |-> filter[f]]
  ELSE filter

matches(doc, filter) ==
  \A f \in DOMAIN filter : f \in DOMAIN doc /\ doc[f] = filter[f]

\* Student.countDocuments(filter)
countStudents(filter) ==
  Cardinality({id \in DOMAIN students :
                 matches(students[id], applyStrictQuery(filter))})

\* Course.countDocuments(filter); every filter the code passes is on a
\* schema path.
countCourses(filter) ==
  Cardinality({id \in DOMAIN courses : matches(courses[id], filter)})

-----------------------------------------------------------------------------
(* Student routes *)

\* POST /api/students
CreateStudent(body) ==
  /\ req' = Request("createStudent", NoId, body)
  /\ IF studentSchemaErrors(body) # {}
     THEN /\ resp' = Response("createStudent", 400, "ValidationError", NoId)
          /\ UNCHANGED <<students, nextStudent>>
     ELSE IF emailTaken(body.email, BadId)
     THEN /\ resp' = Response("createStudent", 400, "DuplicateKey", NoId)
          /\ UNCHANGED <<students, nextStudent>>
     ELSE /\ nextStudent <= MaxStudents
          /\ students' = [id \in DOMAIN students \cup {StudentId(nextStudent)} |->
                            IF id = StudentId(nextStudent)
                            THEN withTimestamps(studentDoc(body))
                            ELSE students[id]]
          /\ nextStudent' = nextStudent + 1
          /\ resp' = Response("createStudent", 201, "ok",
                              StudentId(nextStudent))
  /\ UNCHANGED <<courses, nextCourse, strictQuery, stats>>
  /\ Handled(NoArray)

\* An update that replaces the document by the body, as findOneAndReplace
\* does, in place of setting the body's keys.
applyStudentUpdate_replace(doc, body) ==
  [f \in (DOMAIN body \cap StudentPaths) \cup {"createdAt"} |->
     IF Has(body, f)
     THEN IF f = "enrollmentDate" THEN castDate(body[f]) ELSE body[f]
     ELSE doc[f]]

\* The $set that findByIdAndUpdate builds from req.body: only the keys the
\* body carries, cast to the schema types, with no validators run.
applyStudentUpdate(doc, body) ==
  [f \in DOMAIN doc \cup (DOMAIN body \cap StudentPaths) |->
     IF Has(body, f)
     THEN IF f = "enrollmentDate" THEN castDate(body[f]) ELSE body[f]
     ELSE doc[f]]

\* PUT /api/students/:id
UpdateStudent(id, body) ==
  /\ req' = Request("updateStudent", id, body)
  /\ IF \/ ~isObjectId(id)
        \/ Has(body, "enrollmentDate")
           /\ castDate(body.enrollmentDate) = CastError
     THEN /\ resp' = Response("updateStudent", 400, "CastError", NoId)
          /\ UNCHANGED students
     ELSE IF id \notin DOMAIN students
     THEN /\ resp' = Response("updateStudent", 404, "NotFound", NoId)
          /\ UNCHANGED students
     ELSE IF Has(body, "email") /\ emailTaken(body.email, id)
     THEN /\ resp' = Response("updateStudent", 400, "DuplicateKey", NoId)
          /\ UNCHANGED students
     ELSE /\ students' = [students EXCEPT
                            ![id] = touched(applyStudentUpdate(students[id],
                                                               body))]
          /\ resp' = Response("updateStudent", 200, "ok", id)
  /\ UNCHANGED <<courses, nextStudent, nextCourse, strictQuery, stats>>
  /\ Handled(NoArray)

\* DELETE /api/students/:id
DeleteStudent(id) ==
  /\ req' = Request("deleteStudent", id, NoBody)
  /\ IF ~isObjectId(id)
     THEN /\ resp' = Response("deleteStudent", 500, "CastError", NoId)
          /\ UNCHANGED students
     ELSE IF id \notin DOMAIN students
     THEN /\ resp' = Response("deleteStudent", 404, "NotFound", NoId)
          /\ UNCHANGED students
     ELSE /\ students' = [i \in DOMAIN students \ {id} |-> students[i]]
          /\ resp' = Response("deleteStudent", 200, "ok", NoId)
  /\ UNCHANGED <<courses, nextStudent, nextCourse, strictQuery, stats>>
  /\ Handled(NoArray)

\* GET /api/students/:id.  The body of the response is the one document.
GetStudent(id) ==
  /\ req' = Request("getStudent", id, NoBody)
  /\ resp' = IF ~isObjectId(id)
             THEN Response("getStudent", 500, "CastError", NoId)
             ELSE IF id \notin DOMAIN students
             THEN Response("getStudent", 404, "NotFound", NoId)
             ELSE Response("getStudent", 200, "ok", id)
  /\ UNCHANGED <<students, courses, nextStudent, nextCourse, strictQuery, stats>>
  /\ Handled(IF id \in DOMAIN students THEN <<students[id]>> ELSE NoArray)

-----------------------------------------------------------------------------
(* Course routes *)

\* Binary order of the course names, as the store's ascending sort uses it.
SortedNames == <<"", "Algo", "Bio">>
nameRank(n) == CHOOSE i \in 1..Len(SortedNames) : SortedNames[i] = n

RECURSIVE sortByName(_)
sortByName(ids) ==
  IF ids = {} THEN <<>>
  ELSE LET first == CHOOSE id \in ids :
                      \A o \in ids :
                        nameRank(courses[id].name) <= nameRank(courses[o].name)
       IN  <<first>> \o sortByName(ids \ {first})

\* Course.find().sort({ name: 1 }): the _ids in the order of the response.
listCourses == sortByName(DOMAIN courses)

\* GET /api/courses
ListCourses ==
  /\ req' = Request("listCourses", NoId, NoBody)
  /\ resp' = Response("listCourses", 200, "ok", NoId)
  /\ UNCHANGED <<students, courses, nextStudent, nextCourse, strictQuery, stats>>
  /\ Handled(listCourses)

\* POST /api/courses
CreateCourse(body) ==
  /\ req' = Request("createCourse", NoId, body)
  /\ IF courseSchemaErrors(body) # {}
     THEN /\ resp' = Response("createCourse", 400, "ValidationError", NoId)
          /\ UNCHANGED <<courses, nextCourse>>
     ELSE IF nameTaken(body.name, BadId)
     THEN /\ resp' = Response("createCourse", 400, "DuplicateKey", NoId)
          /\ UNCHANGED <<courses, nextCourse>>
     ELSE /\ nextCourse <= MaxCourses
          /\ courses' = [id \in DOMAIN courses \cup {CourseId(nextCourse)} |->
                           IF id = CourseId(nextCourse)
                           THEN withTimestamps(courseDoc(body))
                           ELSE courses[id]]
          /\ nextCourse' = nextCourse + 1
          /\ resp' = Response("createCourse", 201, "ok", CourseId(nextCourse))
  /\ UNCHANGED <<students, nextStudent, strictQuery, stats>>
  /\ Handled(NoArray)

applyCourseUpdate(doc, body) ==
  [f \in DOMAIN doc \cup (DOMAIN body \cap CoursePaths) |->
     IF Has(body, f) THEN body[f] ELSE doc[f]]

\* PUT /api/course/:id
UpdateCourse(id, body) ==
  /\ req' = Request("updateCourse", id, body)
  /\ IF ~isObjectId(id)
     THEN /\ resp' = Response("updateCourse", 400, "CastError", NoId)
          /\ UNCHANGED courses
     ELSE IF id \notin DOMAIN courses
     THEN /\ resp' = Response("updateCourse", 404, "NotFound", NoId)
          /\ UNCHANGED courses
     ELSE IF Has(body, "name") /\ nameTaken(body.name, id)
     THEN /\ resp' = Response("updateCourse", 400, "DuplicateKey", NoId)
          /\ UNCHANGED courses
     ELSE /\ courses' = [courses EXCEPT
                           ![id] = touched(applyCourseUpdate(courses[id], body))]
          /\ resp' = Response("updateCourse", 200, "ok", id)
  /\ UNCHANGED <<students, nextStudent, nextCourse, strictQuery, stats>>
  /\ Handled(NoArray)

\* DELETE /api/courses/:id
DeleteCourse(id) ==
  /\ req' = Request("deleteCourse", id, NoBody)
  /\ IF countStudents([courseId |-> id]) > 0
     THEN /\ resp' = Response("deleteCourse", 400, "HasEnrolled", NoId)
          /\ UNCHANGED courses
     ELSE IF ~isObjectId(id)
     THEN /\ resp' = Response("deleteCourse", 500, "CastError", NoId)
          /\ UNCHANGED courses
     ELSE IF id \notin DOMAIN courses
     THEN /\ resp' = Response("deleteCourse", 404, "NotFound", NoId)
          /\ UNCHANGED courses
     ELSE /\ courses' = [i \in DOMAIN courses \ {id} |-> courses[i]]
          /\ resp' = Response("deleteCourse", 200, "ok", NoId)
  /\ UNCHANGED <<students, nextStudent, nextCourse, strictQuery, stats>>
  /\ Handled(NoArray)

-----------------------------------------------------------------------------
(* Dashboard *)

\* Math.floor in place of Math.round.
roundPercent_truncate(num, den) == (100 * num) \div den

\* Math.round of the quotient 100 * num / den, for den > 0: the nearest
\* integer, halves rounded up.
roundPercent(num, den) == (200 * num + den) \div (2 * den)

\* Student.aggregate([{ $group: { _id: "$course", count: { $sum: 1 } } }])
groupByCourse ==
  {[_id |-> c,
    count |-> Cardinality({id \in DOMAIN students : students[id].course = c})] :
     c \in {students[id].course : id \in DOMAIN students}}

getDashboardStats ==
  LET totalStudents == countStudents(<<>>)
      graduates == countStudents([status |-> "inactive"])
  IN  [totalStudents |-> totalStudents,
       activeStudents |-> countStudents([status |-> "active"]),
       totalCourses |-> countCourses(<<>>),
       activeCourses |-> countCourses([status |-> "active"]),
       graduates |-> graduates,
       courseCouts |-> groupByCourse,
       successRate |-> IF totalStudents > 0
                       THEN roundPercent(graduates, totalStudents) ELSE 0]

\* GET /api/dashboard/stats: the statistics are computed, and the response
\* line then reads `error`, which is bound only in the catch clause.
DashboardStats ==
  /\ req' = Request("dashboardStats", NoId, NoBody)
  /\ stats' = getDashboardStats
  /\ resp' = Response("dashboardStats", 500, "ReferenceError", NoId)
  /\ UNCHANGED <<students, courses, nextStudent, nextCourse, strictQuery>>
  /\ Handled(NoArray)

-----------------------------------------------------------------------------
(* Specifications *)

Init ==
  /\ students = <<>>
  /\ courses = <<>>
  /\ nextStudent = 1
  /\ nextCourse = 1
  /\ strictQuery \in BOOLEAN
  /\ req = Request("none", NoId, NoBody)
  /\ resp = Response("none", 0, "none", NoId)
  /\ stats = NoStats
  /\ now = 0
  /\ list = NoArray
  /\ dash = DashIdle
  /\ del = NoDelete
  /\ seen = {}
  /\ ui = NoSend
  /\ page = PageInit
  /\ tasks = NoTasks

\* The student routes.
Next ==
  \/ \E body \in StudentBodies : CreateStudent(body)
  \/ \E id \in StudentIds \cup {BadId},
        body \in FullStudentBodies \cup PartialStudentBodies :
       UpdateStudent(id, body)
  \/ \E id \in StudentIds \cup {BadId} : DeleteStudent(id)
  \/ \E id \in StudentIds \cup {BadId} : GetStudent(id)

Spec == Init /\ [][Next]_vars

\* The course routes, with students enrolling and leaving.
NextCourses ==
  \/ \E body \in CourseBodies : CreateCourse(body)
  \/ \E id \in CourseIds \cup {BadId}, body \in PartialCourseBodies :
       UpdateCourse(id, body)
  \/ \E id \in CourseIds \cup {BadId} : DeleteCourse(id)
  \/ ListCourses
  \/ \E body \in EnrolBodies : CreateStudent(body)
  \/ \E id \in StudentIds : DeleteStudent(id)

SpecCourses == Init /\ [][NextCourses]_vars

\* The dashboard, asked on a store that no request is writing to.  A stored
\* status is any string an update has put there.
StatStudent(n, c, s) ==
  [name |-> "Alice", email |-> "e" \o ToString(n), course |-> c,
   enrollmentDate |-> castDate("2024-01-01"), status |-> s,
   createdAt |-> 0, updatedAt |-> 0]

StatCourse(n, s) ==
  [name |-> "N" \o ToString(n), description |-> "intro", duration |-> 12,
   status |-> s, createdAt |-> 0, updatedAt |-> 0]

InitStats ==
  /\ \E n \in 0..MaxStatStudents :
       /\ nextStudent = n + 1
       /\ \E cs \in [1..n -> CourseIds], ss \in [1..n -> StatusIn] :
            students = [id \in {StudentId(i) : i \in 1..n} |->
                          LET i == CHOOSE j \in 1..n : StudentId(j) = id
                          IN  StatStudent(i, cs[i], ss[i])]
  /\ \E m \in 0..MaxCourses :
       /\ nextCourse = m + 1
       /\ \E ss \in [1..m -> StatusEnum] :
            courses = [id \in {CourseId(i) : i \in 1..m} |->
                         LET i == CHOOSE j \in 1..m : CourseId(j) = id
                         IN  StatCourse(i, ss[i])]
  /\ strictQuery \in BOOLEAN
  /\ req = Request("none", NoId, NoBody)
  /\ resp = Response("none", 0, "none", NoId)
  /\ stats = NoStats
  /\ now = 0
  /\ list = NoArray
  /\ dash = DashIdle
  /\ del = NoDelete
  /\ seen = {}
  /\ ui = NoSend
  /\ page = PageInit
  /\ tasks = NoTasks

NextStats == DashboardStats

SpecStats == InitStats /\ [][NextStats]_vars

-----------------------------------------------------------------------------
(* getDashboardStats, one awaited query at a time *)

\* The local variables of getDashboardStats in the order their queries are
\* awaited; the sixth, courseCouts, is read by the step that returns.
DashLocals ==
  <<"totalStudents", "activeStudents", "totalCourses", "activeCourses",
    "graduates">>

dashQuery(k) ==
  CASE k = 1 -> countStudents(<<>>)
    [] k = 2 -> countStudents([status |-> "active"])
    [] k = 3 -> countCourses(<<>>)
    [] k = 4 -> countCourses([status |-> "active"])
    [] k = 5 -> countStudents([status |-> "inactive"])

\* The store answers the next count of a getDashboardStats call; the first
\* count is the start of the call.  Other handlers run between the steps.
DashCount ==
  /\ dash.pc < Len(DashLocals)
  /\ dash' = [f \in DOMAIN dash \cup {DashLocals[dash.pc + 1]} |->
                IF f = "pc" THEN dash.pc + 1
                ELSE IF f = DashLocals[dash.pc + 1] THEN dashQuery(dash.pc + 1)
                ELSE dash[f]]
  /\ seen' = IF dash.pc = 0 THEN {<<students, courses>>} ELSE seen
  /\ stats' = IF dash.pc = 0 THEN NoStats ELSE stats
  /\ UNCHANGED <<students, courses, nextStudent, nextCourse, strictQuery,
                 req, resp, now, list, del, ui, page,
                 tasks>>

\* The aggregate is answered, getDashboardStats returns, and the route
\* handler sends its response.
DashReturn ==
  /\ dash.pc = Len(DashLocals)
  /\ stats' = [totalStudents |-> dash.totalStudents,
               activeStudents |-> dash.activeStudents,
               totalCourses |-> dash.totalCourses,
               activeCourses |-> dash.activeCourses,
               graduates |-> dash.graduates,
               courseCouts |-> groupByCourse,
               successRate |-> IF dash.totalStudents > 0
                               THEN roundPercent(dash.graduates,
                                                 dash.totalStudents)
                               ELSE 0]
  /\ dash' = DashIdle
  /\ req' = Request("dashboardStats", NoId, NoBody)
  /\ resp' = Response("dashboardStats", 500, "ReferenceError", NoId)
  /\ list' = NoArray
  /\ UNCHANGED <<students, courses, nextStudent, nextCourse, strictQuery,
                 now, del, seen, ui, page,
                 tasks>>

\* The bodies of the students that come and go while the dashboard is read.
RaceBodies ==
  {StudentBody("Alice", e, CourseId(1), "2024-01-01", s) :
     e \in EmailIn, s \in {Absent, "inactive"}}

\* The dashboard read while students are created and deleted.
NextDashRace ==
  \/ DashCount
  \/ DashReturn
  \/ \E b \in RaceBodies : CreateStudent(b)
  \/ \E id \in StudentIds : DeleteStudent(id)

SpecDashRace == Init /\ [][NextDashRace]_vars

-----------------------------------------------------------------------------
(* DELETE /api/courses/:id, one awaited query at a time *)

\* The handler up to its first await: the count of enrolled students, and
\* the early 400 when it is positive.  Otherwise the handler is suspended
\* until findByIdAndDelete is answered.
DeleteCourseCount(id) ==
  /\ del = NoDelete
  /\ IF countStudents([courseId |-> id]) > 0
     THEN /\ req' = Request("deleteCourse", id, NoBody)
          /\ resp' = Response("deleteCourse", 400, "HasEnrolled", NoId)
          /\ del' = del
     ELSE /\ del' = [id |-> id]
          /\ UNCHANGED <<req, resp>>
  /\ UNCHANGED <<students, courses, nextStudent, nextCourse, strictQuery,
                 stats, now, list, dash, seen, ui, page,
                 tasks>>

\* A handler that counts the students of the course again, on the course
\* path, in the step that deletes.
DeleteCourseDelete_recheck ==
  /\ del # NoDelete
  /\ req' = Request("deleteCourse", del.id, NoBody)
  /\ IF countStudents([course |-> del.id]) > 0
     THEN /\ resp' = Response("deleteCourse", 400, "HasEnrolled", NoId)
          /\ UNCHANGED courses
     ELSE IF ~isObjectId(del.id)
     THEN /\ resp' = Response("deleteCourse", 500, "CastError", NoId)
          /\ UNCHANGED courses
     ELSE IF del.id \notin DOMAIN courses
     THEN /\ resp' = Response("deleteCourse", 404, "NotFound", NoId)
          /\ UNCHANGED courses
     ELSE /\ courses' = [i \in DOMAIN courses \ {del.id} |-> courses[i]]
          /\ resp' = Response("deleteCourse", 200, "ok", NoId)
  /\ del' = NoDelete
  /\ UNCHANGED <<students, nextStudent, nextCourse, strictQuery, stats,
                 now, list, dash, seen, ui, page, tasks>>

\* Course.findByIdAndDelete is answered and the handler responds.  The count
\* taken before is not looked at again.
DeleteCourseDelete ==
  /\ del # NoDelete
  /\ req' = Request("deleteCourse", del.id, NoBody)
  /\ IF ~isObjectId(del.id)
     THEN /\ resp' = Response("deleteCourse", 500, "CastError", NoId)
          /\ UNCHANGED courses
     ELSE IF del.id \notin DOMAIN courses
     THEN /\ resp' = Response("deleteCourse", 404, "NotFound", NoId)
          /\ UNCHANGED courses
     ELSE /\ courses' = [i \in DOMAIN courses \ {del.id} |-> courses[i]]
          /\ resp' = Response("deleteCourse", 200, "ok", NoId)
  /\ del' = NoDelete
  /\ UNCHANGED <<students, nextStudent, nextCourse, strictQuery, stats,
                 now, list, dash, seen, ui, page, tasks>>

\* A course being deleted while courses are created and students enrol.
NextDeleteRace ==
  \/ \E id \in CourseIds \cup {BadId} : DeleteCourseCount(id)
  \/ DeleteCourseDelete
  \/ \E body \in FullCourseBodies : CreateCourse(body)
  \/ \E body \in EnrolBodies : CreateStudent(body)

SpecDeleteRace == Init /\ [][NextDeleteRace]_vars

-----------------------------------------------------------------------------
(* GET /api/student/search *)

\* The characters of the strings that are searched and searched for.
Chars ==
  [s \in {"Alice", "Bob", "a@x.io", "b@x.io", "c1",
          "ali", "a.x", "(", "zed", ""} |->
     CASE s = "Alice"  -> <<"A", "l", "i", "c", "e">>
       [] s = "Bob"    -> <<"B", "o", "b">>
       [] s = "a@x.io" -> <<"a", "@", "x", ".", "i", "o">>
       [] s = "b@x.io" -> <<"b", "@", "x", ".", "i", "o">>
       [] s = "c1"     -> <<"c", "1">>
       [] s = "ali"    -> <<"a", "l", "i">>
       [] s = "a.x"    -> <<"a", ".", "x">>
       [] s = "("      -> <<"(">>
       [] s = "zed"    -> <<"z", "e", "d">>
       [] s = ""       -> <<>>]

\* Case folding, as the "i" option applies it to both sides.
toLower(ch) ==
  CASE ch = "A" -> "a"
    [] ch = "B" -> "b"
    [] OTHER -> ch

\* The store's regular-expression compiler rejects a group that is opened
\* and not closed.
regexInvalid(pat) ==
  Cardinality({i \in 1..Len(pat) : pat[i] = "("})
    # Cardinality({i \in 1..Len(pat) : pat[i] = ")"})

\* One pattern character against one text character: "." matches any
\* character, every other character of the model's patterns matches itself,
\* letters without regard to case.
regexCharMatches(p, ch) == p = "." \/ toLower(p) = toLower(ch)

\* { $regex: pat, $options: "i" } on a string field: the unanchored pattern
\* matches somewhere in the text.
regexTest(pat, text) ==
  \E off \in 0..(Len(text) - Len(pat)) :
    \A j \in 1..Len(pat) : regexCharMatches(pat[j], text[off + j])

\* The students the $or of the three $regex conditions selects.
searchMatches(term) ==
  {sid \in DOMAIN students :
     \E f \in {"name", "email", "course"} :
       /\ Has(students[sid], f)
       /\ regexTest(Chars[term], Chars[students[sid][f]])}

\* The arrays that hold each element of S once.
Orders(S) ==
  {s \in [1..Cardinality(S) -> S] : \A i, j \in DOMAIN s : s[i] = s[j] => i = j}

\* The query strings of the search requests: ?term=<text>, or no term.
TermIn == {"ali", "a.x", "(", "zed", ""}
SearchQueries == {[term |-> t] : t \in TermIn} \cup {NoBody}

\* GET /api/student/search.  req.query.term is undefined when the query
\* string has no term; the store refuses a $regex that is not a string, and
\* one that does not compile.  A find without a sort is answered in an order
\* the store chooses.
SearchStudents(query) ==
  /\ req' = Request("searchStudents", NoId, query)
  /\ IF ~Has(query, "term")
     THEN /\ resp' = Response("searchStudents", 500, "BadValue", NoId)
          /\ Handled(NoArray)
     ELSE IF regexInvalid(Chars[query.term])
     THEN /\ resp' = Response("searchStudents", 500, "BadRegex", NoId)
          /\ Handled(NoArray)
     ELSE /\ resp' = Response("searchStudents", 200, "ok", NoId)
          /\ \E arr \in Orders(searchMatches(query.term)) : Handled(arr)
  /\ UNCHANGED <<students, courses, nextStudent, nextCourse, strictQuery, stats>>

-----------------------------------------------------------------------------
(* GET /api/students *)

\* Student.find().sort({ createdAt: 1 }): oldest first.
listStudents_ascending ==
  {arr \in Orders(DOMAIN students) :
     \A i, j \in DOMAIN arr :
       i < j => students[arr[i]].createdAt <= students[arr[j]].createdAt}

\* Student.find().sort({ createdAt: -1 }): the arrays of _ids the store may
\* answer.  createdAt is the only sort key, and the store returns documents
\* whose keys are equal in an order of its choosing.
listStudents ==
  {arr \in Orders(DOMAIN students) :
     \A i, j \in DOMAIN arr :
       i < j => students[arr[i]].createdAt >= students[arr[j]].createdAt}

\* GET /api/students
ListStudents ==
  /\ req' = Request("listStudents", NoId, NoBody)
  /\ resp' = Response("listStudents", 200, "ok", NoId)
  /\ \E arr \in listStudents : Handled(arr)
  /\ UNCHANGED <<students, courses, nextStudent, nextCourse, strictQuery, stats>>

\* A millisecond passes on the clock the timestamps are taken from.
Tick ==
  /\ now < MaxClock
  /\ now' = now + 1
  /\ UNCHANGED <<students, courses, nextStudent, nextCourse, strictQuery,
                 req, resp, stats, list, dash, del, seen, ui, page,
                 tasks>>

-----------------------------------------------------------------------------
(* The read routes *)

\* The valid bodies of the students that are read back.
ReadBodies ==
  {StudentBody(n, e, CourseId(1), d, s) :
     n \in {"Alice", "Bob"}, e \in EmailIn,
     d \in {"2024-01-01", "2024-03-05T10:30:00.000Z"},
     s \in {Absent, "inactive"}}

\* Students are created and read back by id, listed and searched.
NextRead ==
  \/ \E body \in ReadBodies : CreateStudent(body)
  \/ \E query \in SearchQueries : SearchStudents(query)
  \/ ListStudents
  \/ \E id \in StudentIds \cup {BadId} : GetStudent(id)
  \/ Tick

SpecRead == Init /\ [][NextRead]_vars

-----------------------------------------------------------------------------
(* Routing: the routes the server registers, the requests the UI sends *)

Route(method, path, op) == [method |-> method, path |-> path, op |-> op]

\* The API routes in the order app.get / post / put / delete register them;
\* a path is its segments, ":id" the route parameter.
Routes ==
  <<Route("GET", <<"api", "courses">>, "listCourses"),
    Route("POST", <<"api", "courses">>, "createCourse"),
    Route("PUT", <<"api", "course", ":id">>, "updateCourse"),
    Route("DELETE", <<"api", "courses", ":id">>, "deleteCourse"),
    Route("GET", <<"api", "students">>, "listStudents"),
    Route("POST", <<"api", "students">>, "createStudent"),
    Route("PUT", <<"api", "students", ":id">>, "updateStudent"),
    Route("DELETE", <<"api", "students", ":id">>, "deleteStudent"),
    Route("GET", <<"api", "student", "search">>, "searchStudents"),
    Route("GET", <<"api", "dashboard", "stats">>, "dashboardStats"),
    Route("GET", <<"api", "students", ":id">>, "getStudent")>>

\* Express routing is not strict: a trailing slash of the request path is
\* ignored.
stripTrailingSlash(path) ==
  IF Len(path) > 0 /\ path[Len(path)] = ""
  THEN SubSeq(path, 1, Len(path) - 1)
  ELSE path

routeMatches(r, method, path) ==
  LET p == stripTrailingSlash(path)
  IN  /\ r.method = method
      /\ Len(r.path) = Len(p)
      /\ \A i \in 1..Len(p) :
           IF r.path[i] = ":id" THEN p[i] # "" ELSE r.path[i] = p[i]

\* The operation of the first registered route that matches, "noRoute" when
\* none does.
routedOp(method, path) ==
  LET M == {i \in DOMAIN Routes : routeMatches(Routes[i], method, path)}
  IN  IF M = {} THEN "noRoute"
      ELSE Routes[CHOOSE i \in M : \A j \in M : i <= j].op

\* req.params.id of the routes that have the parameter.
pathParam(path) == IF Len(path) >= 3 THEN path[3] ELSE NoId

\* encodeURIComponent on the search terms of the model.
encodeURIComponent(t) ==
  CASE t = "a b" -> "a%20b"
    [] OTHER -> t

\* req.query, as Express parses it from the query strings of the model: a
\* key without "=" has the empty string as its value.
parseQuery(qs) ==
  CASE qs = "qali" -> [qali |-> ""]
    [] qs = "qa%20b" -> ("qa b" :> "")
    [] OTHER -> NoBody

\* What the UI does: the operation, the id of the row, the form data, the
\* text of the search box.
UiCall(op, id, body, term) ==
  [op |-> op, id |-> id, body |-> body, term |-> term]

UiTermIn == {"ali", "a b"}
UiStudentBodies ==
  {StudentBody("Alice", e, CourseId(1), "2024-01-01", Absent) : e \in EmailIn}
UiCourseBodies == {CourseBody(n, "intro", 12, Absent) : n \in CourseNameIn}

\* The calls the UI can make: the lists and the dashboard at any time, the
\* forms with their data, the row buttons for the rows that exist, the search
\* box with a text that is not empty after trim().
UiCalls ==
  {UiCall(op, NoId, NoBody, "") :
     op \in {"listCourses", "listStudents", "dashboardStats"}}
  \cup {UiCall("createCourse", NoId, b, "") : b \in UiCourseBodies}
  \cup {UiCall("updateCourse", id, CourseBody(Absent, Absent, AbsentNum,
                                              "inactive"), "") :
          id \in DOMAIN courses}
  \cup {UiCall(op, id, NoBody, "") :
          op \in {"deleteCourse", "getCourse"}, id \in DOMAIN courses}
  \cup {UiCall("createStudent", NoId, b, "") : b \in UiStudentBodies}
  \cup {UiCall("updateStudent", id,
               StudentBody(Absent, Absent, Absent, Absent, "inactive"), "") :
          id \in DOMAIN students}
  \cup {UiCall("deleteStudent", id, NoBody, "") : id \in DOMAIN students}
  \cup {UiCall("searchStudents", NoId, NoBody, t) : t \in UiTermIn}

\* The request fetch() sends for a call of the UI.
uiFetch(call) ==
  LET send(method, path, qs) ==
        [op |-> call.op, method |-> method, path |-> path, query |-> qs,
         body |-> call.body]
  IN  CASE call.op = "listCourses" -> send("GET", <<"api", "courses">>, "")
        [] call.op = "createCourse" ->
             send("POST", <<"api", "courses", "">>, "")
        [] call.op = "updateCourse" ->
             send("PUT", <<"api", "courses", call.id>>, "")
        [] call.op = "deleteCourse" ->
             send("DELETE", <<"api", "course", call.id>>, "")
        [] call.op = "getCourse" ->
             send("GET", <<"api", "courses", call.id>>, "")
        [] call.op = "listStudents" -> send("GET", <<"api", "students">>, "")
        [] call.op = "createStudent" ->
             send("POST", <<"api", "students">>, "")
        [] call.op = "updateStudent" ->
             send("PUT", <<"api", "students", call.id>>, "")
        [] call.op = "deleteStudent" ->
             send("DELETE", <<"api", "students", call.id>>, "")
        [] call.op = "searchStudents" ->
             send("GET", <<"api", "students", "search">>,
                  "q" \o encodeURIComponent(call.term))
        [] call.op = "dashboardStats" ->
             send("GET", <<"api", "dashboard", "stats">>, "")

\* The UI sends a request; the response to the one before has arrived.
UiSend(call) ==
  /\ ui = NoSend \/ resp.op # "none"
  /\ ui' = uiFetch(call)
  /\ req' = Request("none", NoId, NoBody)
  /\ resp' = Response("none", 0, "none", NoId)
  /\ UNCHANGED <<students, courses, nextStudent, nextCourse, strictQuery,
                 stats, now, list, dash, del, seen, page, tasks>>

\* No route matches: Express answers 404.
NoRoute ==
  /\ req' = Request("noRoute", NoId, NoBody)
  /\ resp' = Response("noRoute", 404, "NoRoute", NoId)
  /\ UNCHANGED <<students, courses, nextStudent, nextCourse, strictQuery, stats>>
  /\ Handled(NoArray)

\* The server routes the request the UI has sent and runs the handler of the
\* route.
Serve ==
  /\ ui # NoSend
  /\ resp.op = "none"
  /\ LET op == routedOp(ui.method, ui.path)
         id == pathParam(ui.path)
     IN  CASE op = "listCourses" -> ListCourses
           [] op = "createCourse" -> CreateCourse(ui.body)
           [] op = "updateCourse" -> UpdateCourse(id, ui.body)
           [] op = "deleteCourse" -> DeleteCourse(id)
           [] op = "listStudents" -> ListStudents
           [] op = "createStudent" -> CreateStudent(ui.body)
           [] op = "updateStudent" -> UpdateStudent(id, ui.body)
           [] op = "deleteStudent" -> DeleteStudent(id)
           [] op = "searchStudents" -> SearchStudents(parseQuery(ui.query))
           [] op = "dashboardStats" -> DashboardStats
           [] op = "getStudent" -> GetStudent(id)
           [] OTHER -> NoRoute

\* The UI in front of the server.
NextUI ==
  \/ \E call \in UiCalls : UiSend(call)
  \/ Serve

SpecUI == Init /\ [][NextUI]_vars

-----------------------------------------------------------------------------
(* The UI script: its session state and its suspended async functions *)

\* showLoading / hideLoading switch the one class of the spinner.
showLoading(p) == [p EXCEPT !.loading = TRUE]
hideLoading(p) == [p EXCEPT !.loading = FALSE]

\* closeModal is the student modal's; closeCourseModal the course modal's.
closeModal(p) == [p EXCEPT !.studentModal = FALSE, !.editingId = NoId]
openCourseModal(p) == [p EXCEPT !.courseModal = TRUE, !.editingCourseId = NoId]
closeCourseModal(p) ==
  [p EXCEPT !.courseModal = FALSE, !.editingCourseId = NoId]
closeDeleteModal(p) ==
  [p EXCEPT !.deleteModal = FALSE, !.deleteType = "", !.deleteId = NoId]

\* An async function suspended at the await of a fetch: the function, the
\* await it is at, the call whose request it sent, whether the request has
\* reached the server ("sent", then "server"), and the function that awaits
\* it in a Promise.all ("top" when none does).  A function suspended at a
\* Promise.all has no request of its own (at = "all").
Task(fn, pc, call, of) ==
  [fn |-> fn, pc |-> pc, at |-> "sent", call |-> call, of |-> of]
NoCall == UiCall("none", NoId, NoBody, "")
AwaitAll(fn) == [fn |-> fn, pc |-> "all", at |-> "all", call |-> NoCall,
                 of |-> "top"]

loadCoursesCall == UiCall("listCourses", NoId, NoBody, "")
loadStudentsCall == UiCall("listStudents", NoId, NoBody, "")
statsCall == UiCall("dashboardStats", NoId, NoBody, "")

\* The functions that call showLoading before their first fetch.
BusyFns == {"checkAndLoadData", "comfirmDelete", "handleCourseFormSubmit",
            "editCourse"}

\* The requests fetch has sent and not yet resolved.
inFlight == {i \in DOMAIN tasks : tasks[i].at \in {"sent", "server"}}

Remove(seq, i) == SubSeq(seq, 1, i - 1) \o SubSeq(seq, i + 1, Len(seq))
Replace(seq, i, new) ==
  SubSeq(seq, 1, i - 1) \o new \o SubSeq(seq, i + 1, Len(seq))

\* response.ok
isOk(status) == status >= 200 /\ status <= 299

\* The courses array after loadCourses: the response's, or [] in its catch.
loadedCourses(ok) == IF ok THEN list ELSE <<>>

\* The tasks navigateToSection starts, none of them awaited.
navigateTasks(section) ==
  IF section = "courses"
  THEN <<Task("loadCourses", "fetch", loadCoursesCall, "top")>>
  ELSE <<Task("loadStudents", "fetch", loadStudentsCall, "top"),
         Task("updateDashboardStats", "fetch", statsCall, "top")>>

\* What the function suspended as tasks[i] does when its response arrives,
\* up to its next await or its end: the page it leaves and the tasks that
\* stand in its place.
resume(i, ok) ==
  LET t == tasks[i]
      done(p) == [page |-> p, tasks |-> <<>>]
      goOn(p, pc, call) ==
        [page |-> p, tasks |-> <<[t EXCEPT !.pc = pc, !.at = "sent",
                                            !.call = call]>>]
      withCourses == [page EXCEPT !.courses = loadedCourses(ok)]
  IN  CASE t.fn = "loadCourses" -> done(withCourses)
        [] t.fn \in {"loadStudents", "updateDashboardStats"} -> done(page)
        [] t.fn = "checkAndLoadData" ->
             IF loadedCourses(ok) = <<>>
             THEN [page |-> hideLoading(openCourseModal(
                              [withCourses EXCEPT
                                 !.currentSection = "courses"])),
                   tasks |-> navigateTasks("courses")]
             ELSE [page |-> withCourses,
                   tasks |-> <<AwaitAll("checkAndLoadData"),
                               Task("loadStudents", "fetch", loadStudentsCall,
                                    "checkAndLoadData"),
                               Task("updateDashboardStats", "fetch", statsCall,
                                    "checkAndLoadData")>>]
        [] t.fn = "handleCourseFormSubmit" ->
             (CASE t.pc = "save" ->
                     IF ok THEN goOn(closeModal(page), "loadCourses",
                                     loadCoursesCall)
                     ELSE done(hideLoading(page))
                [] t.pc = "loadCourses" ->
                     goOn(withCourses, "stats", statsCall)
                [] t.pc = "stats" -> done(hideLoading(page)))
        [] t.fn = "editCourse" ->
             IF ok
             THEN done(hideLoading([page EXCEPT
                                      !.editingCourseId = t.call.id,
                                      !.courseModal = TRUE]))
             ELSE done(hideLoading(page))
        [] t.fn = "comfirmDelete" ->
             (CASE t.pc = "delete" ->
                     IF ok
                     THEN goOn(page, "reload",
                               IF t.call.op = "deleteStudent"
                               THEN loadStudentsCall ELSE loadCoursesCall)
                     ELSE done(closeDeleteModal(hideLoading(page)))
                [] t.pc = "reload" ->
                     goOn(IF t.call.op = "listCourses" THEN withCourses
                          ELSE page, "stats", statsCall)
                [] t.pc = "stats" ->
                     done(closeDeleteModal(hideLoading(page))))

\* The request of a suspended function reaches the server, which takes the
\* requests one at a time and in any order.
UiDeliver(i) ==
  /\ ui = NoSend
  /\ tasks[i].at = "sent"
  /\ ui' = uiFetch(tasks[i].call)
  /\ tasks' = [tasks EXCEPT ![i].at = "server"]
  /\ req' = Request("none", NoId, NoBody)
  /\ resp' = Response("none", 0, "none", NoId)
  /\ UNCHANGED <<students, courses, nextStudent, nextCourse, strictQuery,
                 stats, now, list, dash, del, seen, page>>

\* The response arrives and the function runs on.  When the last function a
\* Promise.all awaits has ended, the awaiting checkAndLoadData ends too, in
\* its finally.
UiReceive(i) ==
  /\ tasks[i].at = "server"
  /\ resp.op # "none"
  /\ ui' = NoSend
  /\ LET r == resume(i, isOk(resp.status))
         rest == Replace(tasks, i, r.tasks)
         last == /\ tasks[i].of # "top"
                 /\ ~\E j \in DOMAIN rest : rest[j].of = tasks[i].of
         parent == CHOOSE j \in DOMAIN rest : rest[j].at = "all"
     IN  IF last
         THEN /\ tasks' = Remove(rest, parent)
              /\ page' = hideLoading(r.page)
         ELSE /\ tasks' = rest
              /\ page' = r.page
  /\ UNCHANGED <<students, courses, nextStudent, nextCourse, strictQuery,
                 req, resp, stats, now, list, dash, del, seen>>


\* DOMContentLoaded: the listeners are set and checkAndLoadData runs to its
\* first await.
DOMContentLoaded ==
  /\ ~page.loaded
  /\ page' = showLoading([page EXCEPT !.loaded = TRUE])
  /\ tasks' = <<Task("checkAndLoadData", "loadCourses", loadCoursesCall,
                     "top")>>
  /\ UNCHANGED <<students, courses, nextStudent, nextCourse, strictQuery,
                 req, resp, stats, now, list, dash, del, seen, ui>>

\* The user does something on the loaded page.  Nothing in the script keeps
\* an event from being handled while a request is in flight.
UserEvent(p, started) ==
  /\ page.loaded
  /\ Len(tasks) + Len(started) <= MaxTasks
  /\ page' = p
  /\ tasks' = tasks \o started
  /\ UNCHANGED <<students, courses, nextStudent, nextCourse, strictQuery,
                 req, resp, stats, now, list, dash, del, seen, ui>>

\* A click on a nav item: navigateToSection starts its loads and returns.
ClickNav(section) ==
  UserEvent([page EXCEPT !.currentSection = section], navigateTasks(section))

\* The Add Course button, and a click outside the open course modal.
ClickAddCourse ==
  /\ ~page.courseModal
  /\ UserEvent(openCourseModal(page), <<>>)

ClickOutsideCourseModal ==
  /\ page.courseModal
  /\ UserEvent(closeCourseModal(page), <<>>)

\* The data of the course form: all four fields, the status from a select.
FormCourseBodies == {CourseBody(n, "intro", 12, "active") : n \in CourseNameIn}

\* handleCourseFormSubmit up to its first await.  It tests editingId.
SubmitCourseForm(body) ==
  /\ page.courseModal
  /\ UserEvent(showLoading(page),
               <<Task("handleCourseFormSubmit", "save",
                      IF page.editingId # NoId
                      THEN UiCall("updateCourse", page.editingId, body, "")
                      ELSE UiCall("createCourse", NoId, body, ""),
                      "top")>>)

Range(seq) == {seq[i] : i \in 1..Len(seq)}

\* The Edit button of a course row: editCourse(id) up to its fetch.
ClickEditCourse(id) ==
  /\ id \in Range(page.courses)
  /\ UserEvent(showLoading(page),
               <<Task("editCourse", "get", UiCall("getCourse", id, NoBody, ""),
                      "top")>>)

\* The Delete button of a course row: deleteCourse(id).
ClickDeleteCourse(id) ==
  /\ id \in Range(page.courses)
  /\ UserEvent([page EXCEPT !.deleteType = "course", !.deleteId = id,
                            !.deleteModal = TRUE], <<>>)

\* The Cancel button of the delete modal.
ClickCancelDelete ==
  /\ page.deleteModal
  /\ UserEvent(closeDeleteModal(page), <<>>)

\* The Confirm button of the delete modal: comfirmDelete up to its fetch,
\* or to its end when no type is pending.
ClickConfirmDelete ==
  /\ page.deleteModal
  /\ IF page.deleteType \in {"student", "course"}
     THEN UserEvent(showLoading(page),
                    <<Task("comfirmDelete", "delete",
                           UiCall(IF page.deleteType = "student"
                                  THEN "deleteStudent" ELSE "deleteCourse",
                                  page.deleteId, NoBody, ""),
                           "top")>>)
     ELSE UserEvent(closeDeleteModal(hideLoading(showLoading(page))), <<>>)

\* The store the page is opened on: empty, or with a course from an earlier
\* session.
InitPage ==
  /\ students = <<>>
  /\ nextStudent = 1
  /\ \/ courses = <<>> /\ nextCourse = 1
     \/ /\ courses = [id \in {CourseId(1)} |->
                        [name |-> "Algo", description |-> "intro",
                         duration |-> 12, status |-> "active",
                         createdAt |-> 0, updatedAt |-> 0]]
        /\ nextCourse = 2
  /\ strictQuery \in BOOLEAN
  /\ req = Request("none", NoId, NoBody)
  /\ resp = Response("none", 0, "none", NoId)
  /\ stats = NoStats
  /\ now = 0
  /\ list = NoArray
  /\ dash = DashIdle
  /\ del = NoDelete
  /\ seen = {}
  /\ ui = NoSend
  /\ page = PageInit
  /\ tasks = NoTasks

\* The page in the browser, its requests served by the routes.
NextPage ==
  \/ DOMContentLoaded
  \/ \E section \in {"dashboard", "students", "courses"} : ClickNav(section)
  \/ ClickAddCourse
  \/ ClickOutsideCourseModal
  \/ \E body \in FormCourseBodies : SubmitCourseForm(body)
  \/ \E id \in CourseIds : ClickEditCourse(id)
  \/ \E id \in CourseIds : ClickDeleteCourse(id)
  \/ ClickCancelDelete
  \/ ClickConfirmDelete
  \/ \E i \in DOMAIN tasks : UiDeliver(i)
  \/ Serve
  \/ \E i \in DOMAIN tasks : UiReceive(i)

SpecPage == InitPage /\ [][NextPage]_vars

-----------------------------------------------------------------------------
(* Properties *)

Required == {"name", "email", "course", "enrollmentDate"}

\* Some stored student references the course id in its course field.
hasEnrolled(cid) ==
  \E sid \in DOMAIN students :
    Has(students[sid], "course") /\ students[sid].course = cid

\* C1: deleting a course that at least one stored student is enrolled in
\* fails (status 400, the enrolment conflict), and the store holds the same
\* courses and students afterwards.
C1_DeleteEnrolledCourseFails ==
  [][(/\ req'.op = "deleteCourse"
      /\ req'.id \in DOMAIN courses
      /\ hasEnrolled(req'.id))
     => (/\ resp'.status = 400
         /\ resp'.kind = "HasEnrolled"
         /\ students' = students
         /\ courses' = courses)]_vars

\* C2: deleting an existing course that no student is enrolled in succeeds,
\* whatever other students exist, and a course once deleted is in no later
\* listCourses result.
C2_DeleteUnenrolledCourseSucceeds ==
  [][/\ (/\ req'.op = "deleteCourse"
         /\ req'.id \in DOMAIN courses
         /\ ~hasEnrolled(req'.id))
        => (/\ resp'.status = 200
            /\ req'.id \notin Range(listCourses'))
     /\ \A n \in 1..MaxCourses :
          (n < nextCourse /\ CourseId(n) \notin Range(listCourses))
          => CourseId(n) \notin Range(listCourses')]_vars

\* C3: createStudent with the email of a stored student fails with status
\* 400 and leaves the Student and Course collections as they were.
C3_DuplicateEmailRejected ==
  [][(/\ req'.op = "createStudent"
      /\ Has(req'.body, "email")
      /\ \E sid \in DOMAIN students : students[sid].email = req'.body.email)
     => (/\ resp'.status = 400
         /\ students' = students
         /\ courses' = courses)]_vars

C3_Witness ==
  /\ req.op = "createStudent"
  /\ resp.status = 400
  /\ resp.kind = "DuplicateKey"
  /\ \E sid \in DOMAIN students : students[sid].email = req.body.email
  /\ courses # <<>>

\* C4: no two distinct stored students have the same email, whatever
\* creates, updates (of the email too) and deletes have run.
C4_EmailUnique ==
  \A a, b \in DOMAIN students :
    a # b => students[a].email # students[b].email

C4_Witness ==
  /\ req.op = "updateStudent"
  /\ Has(req.body, "email")
  /\ resp.status = 400
  /\ resp.kind = "DuplicateKey"
  /\ Cardinality(DOMAIN students) = 2

\* C5: createCourse with the name of a stored course fails with status 400
\* and adds no course.
C5_DuplicateCourseNameRejected ==
  [][(/\ req'.op = "createCourse"
      /\ Has(req'.body, "name")
      /\ \E cid \in DOMAIN courses : courses[cid].name = req'.body.name)
     => (/\ resp'.status = 400
         /\ courses' = courses)]_vars

C5_Witness ==
  /\ req.op = "createCourse"
  /\ resp.status = 400
  /\ resp.kind = "DuplicateKey"
  /\ \E cid \in DOMAIN courses : courses[cid].name = req.body.name

\* A body in which name, email and course are present as non-empty text and
\* enrollmentDate as a calendar date (the field types of the data model).
allPresent(body) ==
  /\ \A f \in {"name", "email", "course"} : Has(body, f) /\ body[f] # ""
  /\ Has(body, "enrollmentDate")
  /\ castDate(body.enrollmentDate) # CastError

\* C6: createStudent with name, email, course and enrollmentDate present, an
\* email no stored student uses and status left out answers 201, adds
\* exactly one student and returns it with status "active".
C6_CreateDefaultsActive ==
  [][(/\ req'.op = "createStudent"
      /\ allPresent(req'.body)
      /\ ~Has(req'.body, "status")
      /\ ~\E sid \in DOMAIN students : students[sid].email = req'.body.email)
     => (/\ resp'.status = 201
         /\ resp'.id \notin DOMAIN students
         /\ DOMAIN students' = DOMAIN students \cup {resp'.id}
         /\ \A sid \in DOMAIN students : students'[sid] = students[sid]
         /\ Has(students'[resp'.id], "status")
         /\ students'[resp'.id].status = "active")]_vars

C6_Witness ==
  /\ req.op = "createStudent"
  /\ ~Has(req.body, "status")
  /\ resp.status = 201
  /\ students[resp.id].status = "active"
  /\ Cardinality(DOMAIN students) = 2

\* C7: createStudent with one of name, email, course, enrollmentDate left
\* out fails with status 400 and adds no student.
C7_MissingFieldRejected ==
  [][(/\ req'.op = "createStudent"
      /\ \E f \in Required : ~Has(req'.body, f))
     => (/\ resp'.status = 400
         /\ students' = students)]_vars

C7_Witness ==
  /\ req.op = "createStudent"
  /\ Cardinality(Required \ DOMAIN req.body) = 1
  /\ studentSchemaErrors(req.body) = Required \ DOMAIN req.body
  /\ resp.status = 400
  /\ resp.kind = "ValidationError"

\* C8: every stored student's status is "active" or "inactive", and so the
\* dashboard's activeStudents and graduates add up to totalStudents.
C8_StatusInEnum ==
  /\ \A sid \in DOMAIN students : students[sid].status \in StatusEnum
  /\ getDashboardStats.activeStudents + getDashboardStats.graduates
       = getDashboardStats.totalStudents

\* C9: on a store nobody is writing to, the statistics are the counts of the
\* store, and their courseCounts field maps every course some student
\* references to the number of students referencing it.
C9_StatsAreCounts ==
  ("totalStudents" \in DOMAIN stats) =>
    /\ stats.totalStudents = Cardinality(DOMAIN students)
    /\ stats.activeStudents =
         Cardinality({sid \in DOMAIN students : students[sid].status = "active"})
    /\ stats.graduates =
         Cardinality({sid \in DOMAIN students : students[sid].status = "inactive"})
    /\ stats.totalCourses = Cardinality(DOMAIN courses)
    /\ stats.activeCourses =
         Cardinality({cid \in DOMAIN courses : courses[cid].status = "active"})
    /\ "courseCounts" \in DOMAIN stats
    /\ \A sid \in DOMAIN students :
         \E g \in stats.courseCounts :
           /\ g._id = students[sid].course
           /\ g.count = Cardinality({o \in DOMAIN students :
                                       students[o].course = g._id})
    /\ \A g \in stats.courseCounts : hasEnrolled(g._id)

C11_StatsRouteAnswers200 ==
  (req.op = "dashboardStats") => (resp.status = 200 /\ resp.kind = "ok")

\* The counts getDashboardStats would return on the store st, taken at once.
isSnapshotOf(snap, st) ==
  LET S == st[1]
      C == st[2]
  IN  /\ snap.totalStudents = Cardinality(DOMAIN S)
      /\ snap.activeStudents =
           Cardinality({sid \in DOMAIN S : S[sid].status = "active"})
      /\ snap.graduates =
           Cardinality({sid \in DOMAIN S : S[sid].status = "inactive"})
      /\ snap.totalCourses = Cardinality(DOMAIN C)
      /\ snap.activeCourses =
           Cardinality({cid \in DOMAIN C : C[cid].status = "active"})
      /\ snap.courseCouts =
           {[_id |-> c,
             count |-> Cardinality({sid \in DOMAIN S : S[sid].course = c})] :
              c \in {S[sid].course : sid \in DOMAIN S}}

\* C12: the statistics a getDashboardStats call returns are the counts of one
\* store state that occurred during the call, also when writes ran in
\* between its queries.
C12_SnapshotOfOneState ==
  (dash.pc = 0 /\ "totalStudents" \in DOMAIN stats)
    => \E st \in seen : isSnapshotOf(stats, st)

\* C13: the count and the delete of deleteCourse are separate steps.  A
\* createStudent for the course handled between them succeeds, and the delete
\* that follows succeeds as well without touching the students: the course is
\* gone and the student that references it stays.
C13_DeleteRaceLeavesDanglingStudent ==
  [][/\ (/\ del # NoDelete
         /\ resp'.op = "createStudent"
         /\ allPresent(req'.body)
         /\ req'.body.course = del.id
         /\ ~\E sid \in DOMAIN students :
               students[sid].email = req'.body.email)
        => (/\ resp'.status = 201
            /\ DOMAIN students' = DOMAIN students \cup {resp'.id}
            /\ students'[resp'.id].course = del.id
            /\ del' = del)
     /\ (/\ del # NoDelete
         /\ del' = NoDelete
         /\ del.id \in DOMAIN courses
         /\ hasEnrolled(del.id))
        => (/\ resp'.op = "deleteCourse"
            /\ resp'.status = 200
            /\ del.id \notin DOMAIN courses'
            /\ students' = students
            /\ \E sid \in DOMAIN students' :
                 students'[sid].course \notin DOMAIN courses')]_vars

\* With strictQuery on, the count is zero only when no student is stored, so
\* the enrolled student here was created after the count.
C13_Witness ==
  /\ strictQuery
  /\ req.op = "deleteCourse"
  /\ resp.status = 200
  /\ req.id \notin DOMAIN courses
  /\ hasEnrolled(req.id)

\* The text is a literal substring of the other, letters compared without
\* regard to case.
isSubstringNoCase(term, text) ==
  \E off \in 0..(Len(text) - Len(term)) :
    \A j \in 1..Len(term) : toLower(term[j]) = toLower(text[off + j])

\* C14: searchStudents with a non-empty term succeeds and returns exactly
\* the students of which the name, the email or the course contains the term
\* as a literal substring, compared case-insensitively.
C14_SearchIsLiteralSubstring ==
  (resp.op = "searchStudents" /\ Has(req.body, "term") /\ req.body.term # "")
    => (/\ resp.status = 200
        /\ Range(list) =
             {sid \in DOMAIN students :
                \E f \in {"name", "email", "course"} :
                  isSubstringNoCase(Chars[req.body.term],
                                    Chars[students[sid][f]])})

\* C15: searchStudents with an empty term, or with no term, succeeds and
\* returns the students that listStudents returns on the same store.
C15_EmptySearchIsList ==
  (resp.op = "searchStudents" /\ (~Has(req.body, "term") \/ req.body.term = ""))
    => (/\ resp.status = 200
        /\ \A arr \in listStudents : Range(list) = Range(arr))

\* The place of a student in the order of insertion.
studentNo(sid) == CHOOSE n \in 1..(MaxStudents + 1) : StudentId(n) = sid

\* C16 as stated: listStudents returns every stored student exactly once,
\* newest first by creation time, students created at the same time in the
\* order of their insertion.
C16_ListTiesByInsertion ==
  (resp.op = "listStudents")
    => (/\ list \in Orders(DOMAIN students)
        /\ \A i, j \in DOMAIN list :
             i < j =>
               \/ students[list[i]].createdAt > students[list[j]].createdAt
               \/ /\ students[list[i]].createdAt = students[list[j]].createdAt
                  /\ studentNo(list[i]) < studentNo(list[j]))

\* C16, amended: listStudents returns every stored student exactly once and
\* no student before one that was created later; the order among students
\* created at the same time is not determined.
C16_ListNewestFirst ==
  (resp.op = "listStudents")
    => (/\ Len(list) = Cardinality(DOMAIN students)
        /\ Range(list) = DOMAIN students
        /\ \A i, j \in DOMAIN list :
             i < j =>
               students[list[i]].createdAt >= students[list[j]].createdAt)

C16_Witness ==
  /\ resp.op = "listStudents"
  /\ Len(list) = 2
  /\ students[list[1]].createdAt > students[list[2]].createdAt
  /\ studentNo(list[1]) > studentNo(list[2])

\* C17: updateStudent on a stored student changes, of its name, email,
\* course, enrollmentDate and status, only those the body carries, and sets
\* those to the body's values; createdAt stays, the store stamps updatedAt.
\* Every other student and every course is left as it was.  A body of only
\* {status: "inactive"} therefore changes the status and nothing else.
C17_UpdateChangesOnlyGivenFields ==
  [][(req'.op = "updateStudent" /\ req'.id \in DOMAIN students)
     => (/\ courses' = courses
         /\ DOMAIN students' = DOMAIN students
         /\ \A sid \in DOMAIN students \ {req'.id} :
              students'[sid] = students[sid]
         /\ \A f \in (StudentPaths \cup {"createdAt"}) \ DOMAIN req'.body :
              /\ Has(students'[req'.id], f) = Has(students[req'.id], f)
              /\ Has(students[req'.id], f)
                   => students'[req'.id][f] = students[req'.id][f]
         /\ resp'.status = 200
              => \A f \in (DOMAIN req'.body \cap StudentPaths)
                            \ {"enrollmentDate"} :
                   /\ Has(students'[req'.id], f)
                   /\ students'[req'.id][f] = req'.body[f]
         /\ req'.body = [status |-> "inactive"]
              => (/\ resp'.status = 200
                  /\ students'[req'.id].status = "inactive"))]_vars

C17_Witness ==
  /\ req.op = "updateStudent"
  /\ req.body = [status |-> "inactive"]
  /\ resp.status = 200
  /\ students[req.id].status = "inactive"
  /\ students[req.id].name = "Alice"
  /\ Cardinality(DOMAIN students) = 2

\* C18: updateStudent, deleteStudent and getStudent with an id that matches
\* no stored student answer 404 and leave students and courses unchanged.
C18_UnknownIdIsNotFound ==
  [][(/\ req'.op \in {"updateStudent", "deleteStudent", "getStudent"}
      /\ req'.id \notin DOMAIN students)
     => (/\ resp'.status = 404
         /\ students' = students
         /\ courses' = courses)]_vars

\* C19 as stated: getStudent on the id a createStudent has just returned
\* answers a record whose name, email, course, enrollmentDate and status are
\* the submitted values, status "active" when the body had none.
C19_RoundTripEqual ==
  [][(/\ resp.op = "createStudent"
      /\ resp.status = 201
      /\ req'.op = "getStudent"
      /\ req'.id = resp.id)
     => (/\ resp'.status = 200
         /\ \A f \in {"name", "email", "course", "enrollmentDate"} :
              list'[1][f] = req.body[f]
         /\ list'[1].status =
              IF Has(req.body, "status") THEN req.body.status
              ELSE "active")]_vars

\* C19, amended: the record read back has the submitted name, email and
\* course, the submitted status or "active", and as enrollmentDate the
\* ISO-8601 UTC timestamp of the instant the submitted date string denotes.
\* getStudent answers the stored document, and no create, list, search or
\* get changes a stored student, so the same holds for a later getStudent.
C19_RoundTripSameInstant ==
  [][/\ (/\ resp.op = "createStudent"
         /\ resp.status = 201
         /\ req'.op = "getStudent"
         /\ req'.id = resp.id)
        => (/\ resp'.status = 200
            /\ \A f \in {"name", "email", "course"} :
                 list'[1][f] = req.body[f]
            /\ list'[1].status =
                 IF Has(req.body, "status") THEN req.body.status
                 ELSE "active"
            /\ dateParse(list'[1].enrollmentDate)
                 = dateParse(req.body.enrollmentDate)
            /\ list'[1].enrollmentDate
                 = toISOString(dateParse(req.body.enrollmentDate)))
     /\ (req'.op = "getStudent" /\ resp'.status = 200)
        => list' = <<students[req'.id]>>
     /\ \A sid \in DOMAIN students :
          sid \in DOMAIN students' /\ students'[sid] = students[sid]]_vars

C19_Witness ==
  /\ req.op = "getStudent"
  /\ resp.status = 200
  /\ req.id = StudentId(2)
  /\ list[1].name = "Bob"
  /\ list[1].status = "active"
  /\ list[1].enrollmentDate = "2024-01-01T00:00:00.000Z"

\* C20: every request the UI sends for an operation is handled by the route
\* of that operation, not by the route of another operation and not by none.
C20_UiRequestsReachTheirRoute ==
  (ui # NoSend /\ resp.op # "none") => resp.op = ui.op

\* C21: the UI has at most one of its requests in flight at any time, and
\* the spinner is shown as long as a request of a function that called
\* showLoading is in flight.
C21_UiSerializesItsRequests ==
  /\ Cardinality(inFlight) <= 1
  /\ (\E i \in inFlight :
        tasks[i].fn \in BusyFns \/ tasks[i].of \in BusyFns)
       => page.loading

\* C22: a submit of the course form sends updateCourse for editingCourseId
\* when editCourse has set it and createCourse when it is null, and when the
\* save has succeeded editingCourseId is null and the course modal closed.
C22_CourseFormFollowsEditingCourseId ==
  [][/\ (/\ Len(tasks') = Len(tasks) + 1
         /\ tasks'[Len(tasks')].fn = "handleCourseFormSubmit")
        => tasks'[Len(tasks')].call.op =
             IF page.editingCourseId # NoId THEN "updateCourse"
             ELSE "createCourse"
     /\ (/\ Len(tasks') = Len(tasks) + 1
         /\ tasks'[Len(tasks')].fn = "handleCourseFormSubmit"
         /\ page.editingCourseId # NoId)
        => tasks'[Len(tasks')].call.id = page.editingCourseId
     /\ (/\ ui # NoSend
         /\ ui' = NoSend
         /\ isOk(resp.status)
         /\ \E i \in DOMAIN tasks :
              /\ tasks[i].at = "server"
              /\ tasks[i].fn = "handleCourseFormSubmit"
              /\ tasks[i].pc = "save")
        => (/\ page'.editingCourseId = NoId
            /\ ~page'.courseModal)]_vars

\* C23: comfirmDelete sends the DELETE for the record the latest
\* deleteStudent / deleteCourse selected; when it ends, with the request
\* succeeded or failed, the spinner is hidden and the target it deleted is
\* cleared (deleteType = "", deleteId = null), while a target selected since
\* it started is still pending.
C23_ConfirmDeleteKeepsLaterTarget ==
  [][/\ (/\ Len(tasks') = Len(tasks) + 1
         /\ tasks'[Len(tasks')].fn = "comfirmDelete")
        => (/\ tasks'[Len(tasks')].call.id = page.deleteId
            /\ tasks'[Len(tasks')].call.op =
                 IF page.deleteType = "student" THEN "deleteStudent"
                 ELSE "deleteCourse")
     /\ \A i \in DOMAIN tasks :
          (/\ tasks[i].fn = "comfirmDelete"
           /\ tasks[i].at = "server"
           /\ ui # NoSend
           /\ ui' = NoSend
           /\ Len(tasks') < Len(tasks))
          => (/\ ~page'.loading
              /\ IF page.deleteId \in {NoId, tasks[i].call.id}
                 THEN page'.deleteType = "" /\ page'.deleteId = NoId
                 ELSE /\ page'.deleteType = page.deleteType
                      /\ page'.deleteId = page.deleteId)]_vars

====
